---- MODULE Spec2Model ----
(***************************************************************************)
(* Model of the ableton-vibe API-map generator (parse-ableton /            *)
(* generate-map): the type classifier classifyType, the declaration        *)
(* scanner and member extractor parseAbletonSource, and the registry       *)
(* assembler generateMapFile with the script that drives them; and of the  *)
(* MCP server's connection to Ableton: the AbletonConnection singleton,    *)
(* main, the request handlers and the signal-triggered cleanup.            *)
(***************************************************************************)
EXTENDS Integers, Sequences, FiniteSets, TLC

VARIABLES
  ty,        \* classifier run: the ts-morph Type handed to classifyType
  tag,       \* classifier run: the string classifyType returned (NoTag before)
  pc,        \* generator script: position of the async main function
  resolves,  \* generator script: whether import.meta.resolve('ableton-js') succeeds
  project,   \* generator script: the source files the glob loads, in order
  parsed,    \* generator script: the ParsedClass[] returned by parseAbletonSource
  finalMap,  \* generator script: the registry built by generateMapFile
  output,    \* generator script: the module text generateMapFile returned
  outFile,   \* generator script: the content of generated/abletonApiMap.ts
  error,     \* generator script: the message of the error the run ended with
  calls,     \* generator script: the functions main has called in this run
  run,       \* generator script: how many times the script has been started
  prevOut,   \* generator script: the file as the previous run left it
  instance,    \* server: AbletonConnection.instance (NoInstance for null)
  connections, \* server: the AbletonConnection objects constructed, each with
               \*         its connected flag and its Ableton client
  mainPc,      \* server: position of main()
  handlers,    \* server: resource/tool handlers that have not returned yet
  requests,    \* server: requests received so far
  signals,     \* server: SIGINT/SIGTERM signals received so far
  exitCode,    \* server: <<>> while the process runs, <<code>> after process.exit
  args,         \* delete_midi_notes: the arguments of the invocation
  tracks,       \* delete_midi_notes: the tracks of the Live set, with their clips
  toolPc,       \* delete_midi_notes: position of the handler
  toolCalls,    \* delete_midi_notes: the Ableton calls the handler has made
  currentNotes, \* delete_midi_notes: the notes read before the deletion
  toolResult    \* delete_midi_notes: what the handler's promise settled with

classifierVars == <<ty, tag>>
scriptVars ==
  <<pc, resolves, project, parsed, finalMap, output, outFile, error, calls, run, prevOut>>
serverVars == <<instance, connections, mainPc, handlers, requests, signals, exitCode>>
toolVars == <<args, tracks, toolPc, toolCalls, currentNotes, toolResult>>
vars == <<classifierVars, scriptVars, serverVars, toolVars>>

-----------------------------------------------------------------------------
(* Bounds of the model *)

MaxNum == 11       \* numeric literal types range over -1..MaxNum
MaxUnion == 2      \* most members of a generated union type
MaxStmts == 3      \* most top-level statements in the whole declaration set
MaxFiles == 2      \* most source files in the declaration set
MaxRuns == 2       \* most invocations of the generator script
MaxRequests == 4   \* most requests the server receives
MaxSignals == 3    \* most signals the server receives
MaxTracks == 1     \* most tracks of the Live set
MaxPitch == 1      \* notes have the pitches 0..MaxPitch

-----------------------------------------------------------------------------
(* JavaScript values and string conversions used by the classifier *)

NoSymbol == "<no symbol>"
NoTag == "<not classified>"

JsUndefined == [t |-> "undefined", s |-> "", n |-> 0]
JsStr(v) == [t |-> "string", s |-> v, n |-> 0]
JsNum(k) == [t |-> "number", s |-> "", n |-> k]

Digits == <<"0", "1", "2", "3", "4", "5", "6", "7", "8", "9">>

RECURSIVE NatToStr(_)
NatToStr(k) ==
  IF k < 10 THEN Digits[k + 1] ELSE NatToStr(k \div 10) \o Digits[(k % 10) + 1]

\* String(v) of JavaScript for the values a literal type can carry
JsString(v) ==
  CASE v.t = "string" -> v.s
    [] v.t = "number" -> IF v.n < 0 THEN "-" \o NatToStr(-v.n) ELSE NatToStr(v.n)
    [] OTHER -> "undefined"

RECURSIVE Join(_, _)
\* Array.prototype.join
Join(vals, sep) ==
  IF Len(vals) = 0 THEN ""
  ELSE IF Len(vals) = 1 THEN vals[1]
  ELSE vals[1] \o sep \o Join(Tail(vals), sep)

-----------------------------------------------------------------------------
(* The ts-morph Type as classifyType observes it.  Each field is the answer *)
(* of the method of the same name; text is type.getText(), which the        *)
(* classifier never reads.                                                  *)

BaseType ==
  [isEnum |-> FALSE, isEnumLiteral |-> FALSE, sym |-> NoSymbol,
   isUnion |-> FALSE, unionTypes |-> <<>>,
   isLiteral |-> FALSE, lit |-> JsUndefined,
   isString |-> FALSE, isNumber |-> FALSE, isBoolean |-> FALSE,
   text |-> "any"]

StringType == [BaseType EXCEPT !.isString = TRUE, !.text = "string"]
NumberType == [BaseType EXCEPT !.isNumber = TRUE, !.text = "number"]
OtherType(txt) == [BaseType EXCEPT !.text = txt]

StringLiteral(v) ==
  [BaseType EXCEPT !.isLiteral = TRUE, !.lit = JsStr(v), !.text = "\"" \o v \o "\""]
NumberLiteral(k) ==
  [BaseType EXCEPT !.isLiteral = TRUE, !.lit = JsNum(k),
                   !.text = IF k < 0 THEN "-" \o NatToStr(-k) ELSE NatToStr(k)]
\* true and false are intrinsic types: isLiteral() answers true for them, and
\* they carry no value, so getLiteralValue() is undefined
BooleanLiteral(b) ==
  [BaseType EXCEPT !.isLiteral = TRUE, !.lit = JsUndefined,
                   !.text = IF b THEN "true" ELSE "false"]

\* a member of an enum: a numeric literal type with the member's symbol
EnumMember(name, k) ==
  [BaseType EXCEPT !.isEnumLiteral = TRUE, !.sym = name,
                   !.isLiteral = TRUE, !.lit = JsNum(k), !.text = name]
\* an enum type: the union of its members, with the enum's symbol
EnumType(name, members) ==
  [BaseType EXCEPT !.isEnum = TRUE, !.isEnumLiteral = TRUE, !.sym = name,
                   !.isUnion = TRUE, !.unionTypes = members, !.text = name]

\* a union type; boolean is the union false | true with the Boolean flag
UnionType(members) ==
  [BaseType EXCEPT !.isUnion = TRUE, !.unionTypes = members,
                   !.isBoolean = (members = <<BooleanLiteral(FALSE), BooleanLiteral(TRUE)>>),
                   !.text = IF members = <<BooleanLiteral(FALSE), BooleanLiteral(TRUE)>>
                            THEN "boolean"
                            ELSE Join([i \in 1..Len(members) |-> members[i].text], " | ")]
BooleanType == UnionType(<<BooleanLiteral(FALSE), BooleanLiteral(TRUE)>>)

-----------------------------------------------------------------------------
(* classifyType *)

classifyTypeNoEnum(type) ==
  IF type.isUnion THEN
    LET unionTypes == type.unionTypes IN
    IF \A i \in 1..Len(unionTypes) : unionTypes[i].isLiteral THEN
      LET vals == [i \in 1..Len(unionTypes) |->
                     LET l == unionTypes[i].lit IN
                     IF l.t = "string" THEN "'" \o l.s \o "'" ELSE JsString(l)]
      IN "(" \o Join(vals, " | ") \o ")"
    ELSE "any"
  ELSE IF type.isLiteral THEN
    LET val == type.lit IN
    IF val.t = "string" THEN "'" \o val.s \o "'" ELSE JsString(val)
  ELSE IF type.isString THEN "string"
  ELSE IF type.isNumber THEN "number"
  ELSE IF type.isBoolean THEN "boolean"
  ELSE "any"

classifyTypePartialUnion(type) ==
  IF type.isEnum \/ type.isEnumLiteral THEN
    IF type.sym # NoSymbol THEN type.sym ELSE "enum"
  ELSE IF type.isUnion THEN
    LET unionTypes == SelectSeq(type.unionTypes, LAMBDA t : t.isLiteral)
        vals == [i \in 1..Len(unionTypes) |->
                   LET l == unionTypes[i].lit IN
                   IF l.t = "string" THEN "'" \o l.s \o "'" ELSE JsString(l)]
    IN "(" \o Join(vals, " | ") \o ")"
  ELSE IF type.isLiteral THEN
    LET val == type.lit IN
    IF val.t = "string" THEN "'" \o val.s \o "'" ELSE JsString(val)
  ELSE IF type.isString THEN "string"
  ELSE IF type.isNumber THEN "number"
  ELSE IF type.isBoolean THEN "boolean"
  ELSE "any"

classifyType(type) ==
  IF type.isEnum \/ type.isEnumLiteral THEN
    IF type.sym # NoSymbol THEN type.sym ELSE "enum"
  ELSE IF type.isUnion THEN
    LET unionTypes == type.unionTypes IN
    IF \A i \in 1..Len(unionTypes) : unionTypes[i].isLiteral THEN
      LET vals == [i \in 1..Len(unionTypes) |->
                     LET l == unionTypes[i].lit IN
                     IF l.t = "string" THEN "'" \o l.s \o "'" ELSE JsString(l)]
      IN "(" \o Join(vals, " | ") \o ")"
    ELSE "any"
  ELSE IF type.isLiteral THEN
    LET val == type.lit IN
    IF val.t = "string" THEN "'" \o val.s \o "'" ELSE JsString(val)
  ELSE IF type.isString THEN "string"
  ELSE IF type.isNumber THEN "number"
  ELSE IF type.isBoolean THEN "boolean"
  ELSE "any"

-----------------------------------------------------------------------------
(* The types the classifier is run on *)

SeqsUpTo(S, lo, hi) == UNION {[1..k -> S] : k \in lo..hi}

StringLiterals == {StringLiteral("Session"), StringLiteral("Arranger"), StringLiteral("")}
NumberLiterals == {NumberLiteral(k) : k \in -1..MaxNum}
BooleanLiterals == {BooleanLiteral(TRUE), BooleanLiteral(FALSE)}

NavDirection ==
  EnumType("NavDirection", <<EnumMember("Up", 0), EnumMember("Down", 1)>>)

EnumTypes ==
  { NavDirection,
    EnumMember("Up", 0),
    EnumMember("Down", 1),
    [NavDirection EXCEPT !.sym = NoSymbol],
    [EnumMember("Up", 0) EXCEPT !.sym = NoSymbol] }

\* the types that can be a member of a union other than an enum
UnionMembers ==
  { StringLiteral("Session"), StringLiteral("Arranger"), NumberLiteral(0),
    NumberLiteral(MaxNum), BooleanLiteral(FALSE), BooleanLiteral(TRUE),
    NumberType, StringType, OtherType("undefined"), OtherType("Track") }

\* the type model never reports a member of a union twice
Injective(ms) == \A i, j \in 1..Len(ms) : ms[i] = ms[j] => i = j

UnionTypes ==
  {UnionType(ms) : ms \in {m \in SeqsUpTo(UnionMembers, 2, MaxUnion) : Injective(m)}}

Types ==
  {StringType, NumberType, BooleanType}
    \cup {OtherType("any"), OtherType("undefined"), OtherType("Track"),
          OtherType("Promise<Track>")}
    \cup StringLiterals \cup NumberLiterals \cup BooleanLiterals
    \cup EnumTypes \cup UnionTypes

-----------------------------------------------------------------------------
(* The declaration files as parseAbletonSource observes them.  A source file *)
(* is the sequence of its top-level statements; a text is the sequence of   *)
(* its characters.                                                          *)

NoHeritage == <<"<no extends>">>
NoName == "<no name>"
NoStatement == [kind |-> "none", name |-> "", heritage |-> NoHeritage, members |-> <<>>]

ClassDeclaration(n, ext, ms) ==
  [kind |-> "class", name |-> n, heritage |-> ext, members |-> ms]
InterfaceDeclaration(n, ms) ==
  [kind |-> "interface", name |-> n, heritage |-> NoHeritage, members |-> ms]
Parameter(n, t) == [name |-> n, type |-> t]
Member(k, n, t, ps) == [kind |-> k, name |-> n, type |-> t, parameters |-> ps]
Method(n, ps) == Member("method", n, OtherType("void"), ps)
StaticMethod(n, ps) == Member("staticMethod", n, OtherType("void"), ps)
Constructor(ps) == Member("constructor", "constructor", OtherType("void"), ps)
PropertySignature(n, t) == Member("propertySignature", n, t, <<>>)
MethodSignature(n, ps) == Member("methodSignature", n, OtherType("void"), ps)

\* String.prototype.includes
IncludesAtStart(text, sub) ==
  Len(sub) <= Len(text) /\ SubSeq(text, 1, Len(sub)) = sub

Includes(text, sub) ==
  \E i \in 1..(Len(text) - Len(sub) + 1) : SubSeq(text, i, i + Len(sub) - 1) = sub

NamespaceOpen == <<"N", "a", "m", "e", "s", "p", "a", "c", "e", "<">>

Denylist == {"constructor", "get", "set", "addListener", "sendCommand"}
DenylistShort == {"constructor", "get", "set", "addListener"}

-----------------------------------------------------------------------------
(* parseAbletonSource *)

Min(S) == CHOOSE x \in S : \A y \in S : x <= y
Max(S) == CHOOSE x \in S : \A y \in S : x >= y

\* sf.getClasses()
getClasses(sf) == SelectSeq(sf, LAMBDA st : st.kind = "class")

\* cls.getInstanceMethods()
getInstanceMethodsWithStatic(cls) ==
  SelectSeq(cls.members, LAMBDA m : m.kind \in {"method", "staticMethod"})

getInstanceMethods(cls) == SelectSeq(cls.members, LAMBDA m : m.kind = "method")

\* fileStatements.find(st => st is an interface declaration named n)
findInterfaceLast(fileStatements, n) ==
  LET hits == {i \in 1..Len(fileStatements) :
                 /\ fileStatements[i].kind = "interface"
                 /\ fileStatements[i].name = n}
  IN IF hits = {} THEN NoStatement ELSE fileStatements[Max(hits)]

findInterface(fileStatements, n) ==
  LET hits == {i \in 1..Len(fileStatements) :
                 /\ fileStatements[i].kind = "interface"
                 /\ fileStatements[i].name = n}
  IN IF hits = {} THEN NoStatement ELSE fileStatements[Min(hits)]

\* the loop over intf.getMembers() that fills gettableProps / settableProps
collectProps(intfOrNone) ==
  IF intfOrNone = NoStatement THEN <<>>
  ELSE LET sigs == SelectSeq(intfOrNone.members,
                             LAMBDA m : m.kind = "propertySignature")
       IN [i \in 1..Len(sigs) |->
             [name |-> sigs[i].name, type |-> classifyType(sigs[i].type)]]

\* the loop over cls.getInstanceMethods() that fills methods
collectMethodsWithReturn(cls) ==
  LET kept == SelectSeq(getInstanceMethods(cls), LAMBDA m : m.name \notin Denylist)
  IN [i \in 1..Len(kept) |->
        [name |-> kept[i].name,
         parameters |-> [j \in 1..(Len(kept[i].parameters) + 1) |->
                           IF j <= Len(kept[i].parameters)
                           THEN [name |-> kept[i].parameters[j].name,
                                 type |-> classifyType(kept[i].parameters[j].type)]
                           ELSE [name |-> "return", type |-> classifyType(kept[i].type)]]]]

collectMethodsShortDenylist(cls) ==
  LET kept == SelectSeq(getInstanceMethods(cls), LAMBDA m : m.name \notin DenylistShort)
  IN [i \in 1..Len(kept) |->
        [name |-> kept[i].name,
         parameters |-> [j \in 1..Len(kept[i].parameters) |->
                           [name |-> kept[i].parameters[j].name,
                            type |-> classifyType(kept[i].parameters[j].type)]]]]

collectMethods(cls) ==
  LET kept == SelectSeq(getInstanceMethods(cls), LAMBDA m : m.name \notin Denylist)
  IN [i \in 1..Len(kept) |->
        [name |-> kept[i].name,
         parameters |-> [j \in 1..Len(kept[i].parameters) |->
                           [name |-> kept[i].parameters[j].name,
                            type |-> classifyType(kept[i].parameters[j].type)]]]]

\* the two tests that skip a class: no extends clause, or an extends text
\* without 'Namespace<'
isEligibleAtStart(cls) ==
  cls.heritage # NoHeritage /\ IncludesAtStart(cls.heritage, NamespaceOpen)

isEligible(cls) ==
  cls.heritage # NoHeritage /\ Includes(cls.heritage, NamespaceOpen)

\* the body of the inner loop for one class that is not skipped
parseClassSettableFromGettable(sf, cls) ==
  [className |-> IF cls.name = NoName THEN "UnknownClass" ELSE cls.name,
   gettableProperties |-> collectProps(findInterface(sf, "GettableProperties")),
   settableProperties |-> collectProps(findInterface(sf, "GettableProperties")),
   methods |-> collectMethods(cls)]

parseClass(sf, cls) ==
  [className |-> IF cls.name = NoName THEN "UnknownClass" ELSE cls.name,
   gettableProperties |-> collectProps(findInterface(sf, "GettableProperties")),
   settableProperties |-> collectProps(findInterface(sf, "SettableProperties")),
   methods |-> collectMethods(cls)]

\* the inner loop: the records of one source file
parseSourceFile(sf) ==
  LET eligible == SelectSeq(getClasses(sf), isEligible)
  IN [i \in 1..Len(eligible) |-> parseClass(sf, eligible[i])]

RECURSIVE parseAbletonSource(_)
\* the outer loop: the records of every source file, in order
parseAbletonSource(sourceFiles) ==
  IF Len(sourceFiles) = 0 THEN <<>>
  ELSE parseSourceFile(Head(sourceFiles)) \o parseAbletonSource(Tail(sourceFiles))

-----------------------------------------------------------------------------
(* generateMapFile: finalMap is an object whose keys keep insertion order,   *)
(* modelled as the sequence of its [key, value] entries                      *)

\* finalMap[key] = value
assignFirstWins(map, key, value) ==
  IF \E i \in 1..Len(map) : map[i].key = key
  THEN map
  ELSE Append(map, [key |-> key, value |-> value])

assign(map, key, value) ==
  IF \E i \in 1..Len(map) : map[i].key = key
  THEN [i \in 1..Len(map) |->
          IF map[i].key = key THEN [key |-> key, value |-> value] ELSE map[i]]
  ELSE Append(map, [key |-> key, value |-> value])

\* the value stored under a class name
FinalMapEntryWithClassName(cls) ==
  [className |-> cls.className,
   gettableProperties |-> cls.gettableProperties,
   settableProperties |-> cls.settableProperties,
   methods |-> cls.methods]

FinalMapEntry(cls) ==
  [gettableProperties |-> cls.gettableProperties,
   settableProperties |-> cls.settableProperties,
   methods |-> [i \in 1..Len(cls.methods) |->
                  [name |-> cls.methods[i].name,
                   parameters |-> [j \in 1..Len(cls.methods[i].parameters) |->
                                     [name |-> cls.methods[i].parameters[j].name,
                                      type |-> cls.methods[i].parameters[j].type]]]]]

RECURSIVE foldClasses(_, _)
foldClasses(map, parsedClasses) ==
  IF Len(parsedClasses) = 0 THEN map
  ELSE foldClasses(assign(map, Head(parsedClasses).className,
                          FinalMapEntry(Head(parsedClasses))),
                   Tail(parsedClasses))

\* the object generateMapFile builds before it serializes it
buildFinalMap(parsedClasses) == foldClasses(<<>>, parsedClasses)

-----------------------------------------------------------------------------
(* JSON.stringify(finalMap, null, 2): the text is the sequence of its lines;  *)
(* a line is its indentation, the key it starts with (if any), the token     *)
(* after it and whether a comma ends it                                      *)

Indent == 2
NoKey == "<no key>"

Line(indent, key, val, comma) ==
  [indent |-> indent, key |-> key, val |-> val, comma |-> comma]

\* a string value as JSON writes it
jsonString(str) == "\"" \o str \o "\""

RECURSIVE Flatten(_)
Flatten(seqs) ==
  IF Len(seqs) = 0 THEN <<>> ELSE Head(seqs) \o Flatten(Tail(seqs))

\* an array whose elements are written by the lines elems[i]
stringifyArray(elems, indent, key, comma) ==
  IF Len(elems) = 0 THEN << Line(indent, key, "[]", comma) >>
  ELSE << Line(indent, key, "[", FALSE) >>
         \o Flatten(elems)
         \o << Line(indent, NoKey, "]", comma) >>

\* { name, type }
stringifyProperty(prop, indent, comma) ==
  << Line(indent, NoKey, "{", FALSE),
     Line(indent + Indent, "name", jsonString(prop.name), TRUE),
     Line(indent + Indent, "type", jsonString(prop.type), FALSE),
     Line(indent, NoKey, "}", comma) >>

stringifyProperties(props, indent, key, comma) ==
  stringifyArray([i \in 1..Len(props) |->
                    stringifyProperty(props[i], indent + Indent, i < Len(props))],
                 indent, key, comma)

\* { name, parameters }
stringifyMethod(method, indent, comma) ==
  << Line(indent, NoKey, "{", FALSE),
     Line(indent + Indent, "name", jsonString(method.name), TRUE) >>
    \o stringifyProperties(method.parameters, indent + Indent, "parameters", FALSE)
    \o << Line(indent, NoKey, "}", comma) >>

\* { gettableProperties, settableProperties, methods }
stringifyEntry(entry, indent, comma) ==
  << Line(indent, entry.key, "{", FALSE) >>
    \o stringifyProperties(entry.value.gettableProperties, indent + Indent,
                           "gettableProperties", TRUE)
    \o stringifyProperties(entry.value.settableProperties, indent + Indent,
                           "settableProperties", TRUE)
    \o stringifyArray([i \in 1..Len(entry.value.methods) |->
                         stringifyMethod(entry.value.methods[i],
                                         indent + Indent + Indent,
                                         i < Len(entry.value.methods))],
                      indent + Indent, "methods", FALSE)
    \o << Line(indent, NoKey, "}", comma) >>

stringifyReversed(map) ==
  IF Len(map) = 0 THEN << Line(0, NoKey, "{}", FALSE) >>
  ELSE << Line(0, NoKey, "{", FALSE) >>
         \o Flatten([i \in 1..Len(map) |->
                       stringifyEntry(map[Len(map) + 1 - i], Indent, i < Len(map))])
         \o << Line(0, NoKey, "}", FALSE) >>

stringify(map) ==
  IF Len(map) = 0 THEN << Line(0, NoKey, "{}", FALSE) >>
  ELSE << Line(0, NoKey, "{", FALSE) >>
         \o Flatten([i \in 1..Len(map) |->
                       stringifyEntry(map[i], Indent, i < Len(map))])
         \o << Line(0, NoKey, "}", FALSE) >>

\* the template literal generateMapFile returns
ModuleText(mapJson) ==
  [comment |-> "// AUTO-GENERATED FILE. DO NOT EDIT DIRECTLY.",
   declaration |-> "export const abletonApiMap = ",
   mapJson |-> mapJson,
   suffix |-> " as const;"]

generateMapFile(parsedClasses) == ModuleText(stringify(buildFinalMap(parsedClasses)))

-----------------------------------------------------------------------------
(* The declaration sets the generator is run on *)

SessionOrArranger == UnionType(<<StringLiteral("Session"), StringLiteral("Arranger")>>)

\* class Song extends Namespace<RawSong>
SongClass ==
  ClassDeclaration("Song", <<"N", "a", "m", "e", "s", "p", "a", "c", "e", "<", "R", "a", "w", "S", "o", "n", "g", ">">>,
    << Constructor(<<Parameter("ableton", OtherType("Ableton"))>>),
       Method("createMidiTrack", <<Parameter("index", NumberType)>>),
       Method("get", <<Parameter("prop", OtherType("any"))>>),
       StaticMethod("from", <<Parameter("raw", StringType)>>) >>)

\* a second class Song extends Namespace<RawSong>, as another file may declare
SongClass2 ==
  ClassDeclaration("Song", <<"N", "a", "m", "e", "s", "p", "a", "c", "e", "<", "R", "a", "w", "S", "o", "n", "g", ">">>,
    << Method("set", <<Parameter("prop", StringType), Parameter("value", OtherType("any"))>>),
       Method("getCuePoints", <<>>) >>)

\* class Track extends BaseNamespace<RawTrack>: the substring ends another identifier
TrackClass ==
  ClassDeclaration("Track", <<"B", "a", "s", "e", "N", "a", "m", "e", "s", "p", "a", "c", "e", "<", "R", "a", "w", "T", "r", "a", "c", "k", ">">>,
    << Method("addListener", <<Parameter("prop", StringType)>>),
       Method("sendCommand", <<Parameter("command", StringType)>>),
       Method("duplicateClipSlot", <<Parameter("index", NumberType),
                                     Parameter("force", BooleanType)>>),
       Method("setView", <<Parameter("view", SessionOrArranger),
                           Parameter("direction", NavDirection)>>) >>)

\* class Wrapper extends Base<Namespace<T>>: the substring is inside a type argument
WrapperClass ==
  ClassDeclaration("Wrapper", <<"B", "a", "s", "e", "<", "N", "a", "m", "e", "s", "p", "a", "c", "e", "<", "T", ">", ">">>, 
    << Method("unwrap", <<Parameter("target", OtherType("Track")),
                          Parameter("depth", NumberType)>>) >>)

\* class Plain: no extends clause
PlainClass ==
  ClassDeclaration("Plain", NoHeritage,
    << Method("run", <<Parameter("times", NumberType)>>) >>)

\* class Ableton extends EventEmitter: an extends clause without the substring
EmitterClass ==
  ClassDeclaration("Ableton", <<"E", "v", "e", "n", "t", "E", "m", "i", "t", "t", "e", "r">>,
    << Method("start", <<Parameter("timeoutMs", NumberType)>>) >>)

GettableInterface ==
  InterfaceDeclaration("GettableProperties",
    << PropertySignature("tempo", NumberType),
       MethodSignature("refresh", <<>>),
       PropertySignature("view", SessionOrArranger) >>)

\* a later interface of the same name with other members
GettableInterface2 ==
  InterfaceDeclaration("GettableProperties", << PropertySignature("name", StringType) >>)

SettableInterface ==
  InterfaceDeclaration("SettableProperties",
    << PropertySignature("name", StringType),
       PropertySignature("direction", NavDirection),
       MethodSignature("reset", <<>>) >>)

\* an interface with another name
RawInterface ==
  InterfaceDeclaration("RawSong", << PropertySignature("id", StringType) >>)

\* the top-level statements a declaration file is made of
Statements ==
  << SongClass, SongClass2, TrackClass, WrapperClass, PlainClass, EmitterClass,
     GettableInterface, GettableInterface2, SettableInterface, RawInterface >>

\* the ways to cut a sequence of n statements into k files, as the k-1
\* positions after which a new file starts
Cuts(n, k) ==
  {c \in [1..(k - 1) -> 0..n] : \A i, j \in 1..(k - 1) : i <= j => c[i] <= c[j]}

Split(stmts, c) ==
  [i \in 1..(Len(c) + 1) |->
     SubSeq(stmts, (IF i = 1 THEN 0 ELSE c[i - 1]) + 1,
                   IF i = Len(c) + 1 THEN Len(stmts) ELSE c[i])]

\* the declaration set of the files cut at c from the statements numbered ids
DeclarationSet(ids, c) ==
  Split([i \in 1..Len(ids) |-> Statements[ids[i]]], c)

-----------------------------------------------------------------------------
(* The generator script: the async function that resolves the package,      *)
(* parses it, generates the map and writes it                               *)

\* what generated/abletonApiMap.ts holds before the run
NoFile == [comment |-> "<no file>", declaration |-> "", mapJson |-> <<>>, suffix |-> ""]
PreviousFile ==
  [comment |-> "<content of an earlier run>", declaration |-> "", mapJson |-> <<>>,
   suffix |-> ""]
NoOutput == NoFile

NoError == "<no error>"

NoInstance == 0

\* no invocation of delete_midi_notes
NoArgs == [trackIndex |-> [floor |-> 0, integral |-> TRUE], fromPitch |-> 0, pitchSpan |-> 0]
NoResult == [kind |-> "pending", content |-> <<>>]

ToolIdle ==
  /\ args = NoArgs
  /\ tracks = <<>>
  /\ toolPc = "idle"
  /\ toolCalls = <<>>
  /\ currentNotes = {}
  /\ toolResult = NoResult

\* the server process before main() is called
ServerStart ==
  /\ instance = NoInstance
  /\ connections = <<>>
  /\ mainPc = "start"
  /\ handlers = 0
  /\ requests = 0
  /\ signals = 0
  /\ exitCode = <<>>

\* the state a run of the script starts in, given what is on disk
Start(file) ==
  /\ pc = "start"
  /\ parsed = <<>>
  /\ finalMap = <<>>
  /\ output = NoOutput
  /\ outFile = file
  /\ error = NoError
  /\ calls = <<>>
  /\ run = 1
  /\ prevOut = NoFile

Init ==
  /\ \/ /\ resolves = TRUE
        /\ \/ project = <<>>
           \/ \E ids \in SeqsUpTo(1..Len(Statements), 0, MaxStmts) :
                \E k \in 1..MaxFiles :
                  \E c \in Cuts(Len(ids), k) : project = DeclarationSet(ids, c)
     \/ resolves = FALSE /\ project = <<>>
  /\ Start(PreviousFile)
  /\ ServerStart
  /\ ToolIdle
  /\ ty = StringType
  /\ tag = NoTag

\* await getAbletonJsPath() returns the path of the ns directory
Resolve ==
  /\ pc = "start"
  /\ resolves
  /\ pc' = "resolved"
  /\ calls' = Append(calls, "getAbletonJsPath")
  /\ UNCHANGED <<classifierVars, serverVars, toolVars, resolves, project, parsed, finalMap, output, outFile,
                 error, run, prevOut>>

\* the error is swallowed and main goes on
ResolveFailsSwallowed ==
  /\ pc = "start"
  /\ ~resolves
  /\ pc' = "resolved"
  /\ calls' = Append(calls, "getAbletonJsPath")
  /\ UNCHANGED <<classifierVars, serverVars, toolVars, resolves, project, parsed, finalMap, output, outFile,
                 error, run, prevOut>>

\* await getAbletonJsPath() throws 'Could not resolve ableton-js package'
ResolveFails ==
  /\ pc = "start"
  /\ ~resolves
  /\ pc' = "aborted"
  /\ error' = "Could not resolve ableton-js package"
  /\ calls' = Append(calls, "getAbletonJsPath")
  /\ UNCHANGED <<classifierVars, serverVars, toolVars, resolves, project, parsed, finalMap, output, outFile,
                 run, prevOut>>

\* parseAbletonSource throws when the package has no eligible class
ParseThrowsOnEmpty ==
  /\ pc = "resolved"
  /\ calls' = Append(calls, "parseAbletonSource")
  /\ IF Len(parseAbletonSource(project)) = 0
     THEN /\ pc' = "aborted"
          /\ error' = "No eligible class"
          /\ UNCHANGED parsed
     ELSE /\ pc' = "parsed"
          /\ parsed' = parseAbletonSource(project)
          /\ UNCHANGED error
  /\ UNCHANGED <<classifierVars, serverVars, toolVars, resolves, project, finalMap, output, outFile, run, prevOut>>

\* const parsed = parseAbletonSource(abletonJsSourcePath)
Parse ==
  /\ pc = "resolved"
  /\ parsed' = parseAbletonSource(project)
  /\ pc' = "parsed"
  /\ calls' = Append(calls, "parseAbletonSource")
  /\ UNCHANGED <<classifierVars, serverVars, toolVars, resolves, project, finalMap, output, outFile, error,
                 run, prevOut>>

\* const output = generateMapFile(parsed)
Generate ==
  /\ pc = "parsed"
  /\ finalMap' = buildFinalMap(parsed)
  /\ output' = generateMapFile(parsed)
  /\ pc' = "generated"
  /\ calls' = Append(calls, "generateMapFile")
  /\ UNCHANGED <<classifierVars, serverVars, toolVars, resolves, project, parsed, outFile, error, run, prevOut>>

\* the text is added to what the file holds
WriteAppending ==
  /\ pc = "generated"
  /\ outFile' = [output EXCEPT !.mapJson = outFile.mapJson \o @]
  /\ pc' = "done"
  /\ calls' = Append(calls, "writeFileSync")
  /\ UNCHANGED <<classifierVars, serverVars, toolVars, resolves, project, parsed, finalMap, output, error,
                 run, prevOut>>

\* fs.writeFileSync('generated/abletonApiMap.ts', output, 'utf8')
Write ==
  /\ pc = "generated"
  /\ outFile' = output
  /\ pc' = "done"
  /\ calls' = Append(calls, "writeFileSync")
  /\ UNCHANGED <<classifierVars, serverVars, toolVars, resolves, project, parsed, finalMap, output, error,
                 run, prevOut>>

Next == Resolve \/ ResolveFails \/ Parse \/ Generate \/ Write

Spec == Init /\ [][Next]_vars

-----------------------------------------------------------------------------
(* Specification of repeated runs of the script over one package: the        *)
(* package holds the sources of one namespace and nothing changes them       *)
(* between the runs                                                          *)

\* export class Song extends Namespace<RawSong> { createMidiTrack(index: number): Promise<Track> }
ScenarioSong ==
  ClassDeclaration("Song", <<"N", "a", "m", "e", "s", "p", "a", "c", "e", "<", "R", "a", "w", "S", "o", "n", "g", ">">>,
    << Member("method", "createMidiTrack", OtherType("Promise<Track>"),
              <<Parameter("index", NumberType)>>) >>)

\* export interface GettableProperties { tempo: number }
ScenarioGettable ==
  InterfaceDeclaration("GettableProperties", << PropertySignature("tempo", NumberType) >>)

\* export interface SettableProperties { name: string }
ScenarioSettable ==
  InterfaceDeclaration("SettableProperties", << PropertySignature("name", StringType) >>)

ScenarioStatements ==
  << ScenarioSong, ScenarioGettable, ScenarioSettable, TrackClass, PlainClass >>

ScenarioDeclarationSet(ids, c) ==
  Split([i \in 1..Len(ids) |-> ScenarioStatements[ids[i]]], c)

InitRuns ==
  /\ \/ /\ resolves = TRUE
        /\ \E ids \in SeqsUpTo(1..Len(ScenarioStatements), 0, MaxStmts) :
             \E k \in 1..MaxFiles :
               \E c \in Cuts(Len(ids), k) : project = ScenarioDeclarationSet(ids, c)
     \/ resolves = FALSE /\ project = <<>>
  /\ \E file \in {NoFile, PreviousFile} : Start(file)
  /\ ServerStart
  /\ ToolIdle
  /\ ty = StringType
  /\ tag = NoTag

\* the script is started again: a new process, the file system as it was left
Rerun ==
  /\ pc \in {"done", "aborted"}
  /\ run < MaxRuns
  /\ pc' = "start"
  /\ parsed' = <<>>
  /\ finalMap' = <<>>
  /\ output' = NoOutput
  /\ error' = NoError
  /\ calls' = <<>>
  /\ run' = run + 1
  /\ prevOut' = outFile
  /\ UNCHANGED <<classifierVars, serverVars, toolVars, resolves, project, outFile>>

NextRuns == Resolve \/ ResolveFails \/ Parse \/ Generate \/ Write \/ Rerun

SpecRuns == InitRuns /\ [][NextRuns]_vars

-----------------------------------------------------------------------------
(* Specification of one classifier run *)

InitClassify ==
  /\ ty \in Types
  /\ tag = NoTag
  /\ resolves = TRUE
  /\ project = <<>>
  /\ Start(NoFile)
  /\ ServerStart
  /\ ToolIdle

Classify ==
  /\ tag = NoTag
  /\ tag' = classifyType(ty)
  /\ UNCHANGED <<ty, scriptVars, serverVars, toolVars>>

NextClassify == Classify

SpecClassify == InitClassify /\ [][NextClassify]_vars

-----------------------------------------------------------------------------
(* The MCP server: AbletonConnection, main, the handlers and cleanup          *)

\* new Ableton({ logger }): a client with no start() or close() under way
NewAbleton ==
  [starting |-> 0, live |-> FALSE, closing |-> 0, startCalls |-> 0, closeCalls |-> 0]

\* new AbletonConnection()
NewConnection == [connected |-> FALSE, ableton |-> NewAbleton]

\* AbletonConnection.getInstance(): a new object replaces the one there is
getInstanceAlwaysNew(inst, conns) ==
  [instance |-> Len(conns) + 1, connections |-> Append(conns, NewConnection)]

\* AbletonConnection.getInstance(): the static field and the objects after the
\* call; the object returned is the one instance then names
getInstance(inst, conns) ==
  IF inst = NoInstance
  THEN [instance |-> Len(conns) + 1, connections |-> Append(conns, NewConnection)]
  ELSE [instance |-> inst, connections |-> conns]

\* this.ableton.start(5000) is called on the client of connection i
start(conns, i) ==
  [conns EXCEPT ![i].ableton.starting = @ + 1, ![i].ableton.startCalls = @ + 1]

\* this.ableton.close() is called on the client of connection i
close(conns, i) ==
  [conns EXCEPT ![i].ableton.closing = @ + 1, ![i].ableton.closeCalls = @ + 1]

Running == exitCode = <<>>

\* main: await AbletonConnection.getInstance().connect(), up to the await
MainConnect ==
  /\ Running
  /\ mainPc = "start"
  /\ LET got == getInstance(instance, connections)
         i == got.instance
     IN /\ instance' = i
        /\ IF ~got.connections[i].connected
           THEN /\ connections' = start(got.connections, i)
                /\ mainPc' = "connecting"
           ELSE /\ connections' = got.connections
                /\ mainPc' = "connected"
  /\ UNCHANGED <<classifierVars, scriptVars, toolVars, handlers, requests, signals, exitCode>>

\* start() resolves: connect sets the flag and returns to main
StartResolves ==
  /\ Running
  /\ mainPc = "connecting"
  /\ \E i \in 1..Len(connections) :
       /\ connections[i].ableton.starting > 0
       /\ connections' = [connections EXCEPT ![i].ableton.starting = @ - 1,
                                             ![i].ableton.live = TRUE,
                                             ![i].connected = TRUE]
  /\ mainPc' = "connected"
  /\ UNCHANGED <<classifierVars, scriptVars, toolVars, instance, handlers, requests, signals,
                 exitCode>>

\* start() rejects: connect and main rethrow, main().catch exits with 1
StartRejects ==
  /\ Running
  /\ mainPc = "connecting"
  /\ \E i \in 1..Len(connections) :
       /\ connections[i].ableton.starting > 0
       /\ connections' = [connections EXCEPT ![i].ableton.starting = @ - 1]
  /\ mainPc' = "failed"
  /\ exitCode' = <<1>>
  /\ UNCHANGED <<classifierVars, scriptVars, toolVars, instance, handlers, requests, signals>>

\* main: new McpServer, the resources and tools are registered, then
\* process.on('SIGINT', cleanup) and process.on('SIGTERM', cleanup)
Setup ==
  /\ Running
  /\ mainPc = "connected"
  /\ mainPc' = "installed"
  /\ UNCHANGED <<classifierVars, scriptVars, toolVars, instance, connections, handlers, requests,
                 signals, exitCode>>

\* await server.connect(transport) resolves
TransportConnects ==
  /\ Running
  /\ mainPc = "installed"
  /\ mainPc' = "listening"
  /\ UNCHANGED <<classifierVars, scriptVars, toolVars, instance, connections, handlers, requests,
                 signals, exitCode>>

\* await server.connect(transport) rejects: main rethrows, main().catch exits
TransportFails ==
  /\ Running
  /\ mainPc = "installed"
  /\ mainPc' = "failed"
  /\ exitCode' = <<1>>
  /\ UNCHANGED <<classifierVars, scriptVars, toolVars, instance, connections, handlers, requests,
                 signals>>

\* a resource or tool handler is invoked:
\* const ableton = AbletonConnection.getInstance().getAbleton()
Request ==
  /\ Running
  /\ mainPc = "listening"
  /\ requests < MaxRequests
  /\ LET got == getInstance(instance, connections)
     IN /\ instance' = got.instance
        /\ connections' = got.connections
  /\ requests' = requests + 1
  /\ handlers' = handlers + 1
  /\ UNCHANGED <<classifierVars, scriptVars, toolVars, mainPc, signals, exitCode>>

\* a handler returns its result
HandlerReturns ==
  /\ Running
  /\ handlers > 0
  /\ handlers' = handlers - 1
  /\ UNCHANGED <<classifierVars, scriptVars, toolVars, instance, connections, mainPc, requests,
                 signals, exitCode>>

\* SIGINT or SIGTERM: cleanup calls AbletonConnection.getInstance().disconnect(),
\* which calls close() and awaits it when the flag is set, and returns
\* otherwise, upon which cleanup exits with 0
Signal ==
  /\ Running
  /\ mainPc \in {"installed", "listening"}
  /\ signals < MaxSignals
  /\ signals' = signals + 1
  /\ LET got == getInstance(instance, connections)
         i == got.instance
     IN /\ instance' = i
        /\ IF got.connections[i].connected
           THEN /\ connections' = close(got.connections, i)
                /\ UNCHANGED exitCode
           ELSE /\ connections' = got.connections
                /\ exitCode' = <<0>>
  /\ UNCHANGED <<classifierVars, scriptVars, toolVars, mainPc, handlers, requests>>

\* close() resolves: disconnect clears the flag, cleanup exits with 0
CloseResolves ==
  /\ Running
  /\ \E i \in 1..Len(connections) :
       /\ connections[i].ableton.closing > 0
       /\ connections' = [connections EXCEPT ![i].ableton.closing = @ - 1,
                                             ![i].ableton.live = FALSE,
                                             ![i].connected = FALSE]
  /\ exitCode' = <<0>>
  /\ UNCHANGED <<classifierVars, scriptVars, toolVars, instance, mainPc, handlers, requests, signals>>

\* close() rejects and disconnect clears the flag all the same
CloseRejectsClearsFlag ==
  /\ Running
  /\ \E i \in 1..Len(connections) :
       /\ connections[i].ableton.closing > 0
       /\ connections' = [connections EXCEPT ![i].ableton.closing = @ - 1,
                                             ![i].connected = FALSE]
  /\ exitCode' = <<1>>
  /\ UNCHANGED <<classifierVars, scriptVars, toolVars, instance, mainPc, handlers, requests, signals>>

\* close() rejects: disconnect rethrows, cleanup exits with 1
CloseRejects ==
  /\ Running
  /\ \E i \in 1..Len(connections) :
       /\ connections[i].ableton.closing > 0
       /\ connections' = [connections EXCEPT ![i].ableton.closing = @ - 1]
  /\ exitCode' = <<1>>
  /\ UNCHANGED <<classifierVars, scriptVars, toolVars, instance, mainPc, handlers, requests, signals>>

InitServer ==
  /\ ServerStart
  /\ ToolIdle
  /\ resolves = TRUE
  /\ project = <<>>
  /\ Start(NoFile)
  /\ ty = StringType
  /\ tag = NoTag

NextServer ==
  \/ MainConnect \/ StartResolves \/ StartRejects
  \/ Setup \/ TransportConnects \/ TransportFails
  \/ Request \/ HandlerReturns
  \/ Signal \/ CloseResolves \/ CloseRejects

SpecServer == InitServer /\ [][NextServer]_vars

-----------------------------------------------------------------------------
(* The delete_midi_notes tool.  A note is identified by its pitch: the time
   arguments keep their defaults, which cover the whole clip. *)

Pitches == 0..MaxPitch

\* a clip reference as clipSlot.get('clip') resolves it; null when isNull
NullClip == [isNull |-> TRUE, is_midi_clip |-> FALSE, notes |-> {}]
Clips == {NullClip} \cup [isNull : {FALSE}, is_midi_clip : BOOLEAN, notes : SUBSET Pitches]

ClipSlots == {[has_clip |-> FALSE, clip |-> NullClip]} \cup [has_clip : {TRUE}, clip : Clips]

\* a track has no clip slot or a first clip slot
Tracks == {[clip_slots |-> <<>>]} \cup {[clip_slots |-> <<s>>] : s \in ClipSlots}

\* trackIndex is any number: floor is its integer part, integral says it is an integer
TrackIndexes == [floor : -1..MaxTracks, integral : BOOLEAN]
Args == [trackIndex : TrackIndexes, fromPitch : Pitches, pitchSpan : 0..(MaxPitch + 1)]

\* trackIndex >= tracks.length, for a length that is an integer
OutOfRange(trackIndex, length) == trackIndex.floor >= length

\* tracks[trackIndex] is undefined unless the index is an integer in 0..length-1
Defined(trackIndex, length) ==
  trackIndex.integral /\ trackIndex.floor >= 0 /\ trackIndex.floor < length

\* the notes clip.getNotes and clip.removeNotes address
InRange(a, notes) == {n \in notes : a.fromPitch <= n /\ n < a.fromPitch + a.pitchSpan}

\* what a rejected call or a throw carries: an Error with a message, or any other value
Errors == {[isError |-> TRUE, message |-> "timeout"], [isError |-> FALSE, message |-> ""]}
TypeError == [isError |-> TRUE, message |-> "Cannot read properties of undefined"]

\* error instanceof Error ? error.message : 'Unknown error'
ErrorMessage(err) == IF err.isError THEN err.message ELSE "Unknown error"

Text(template, values) == [type |-> "text", text |-> [template |-> template, values |-> values]]
Returned(template, values) == [kind |-> "returned", content |-> <<Text(template, values)>>]

TheTrack == tracks[args.trackIndex.floor + 1]
TheClipSlot == TheTrack.clip_slots[1]
TheClip == TheClipSlot.clip

\* the outer catch: the handler returns the error as text
Caught(err) == Returned("Error deleting MIDI notes: ${message}", <<ErrorMessage(err)>>)

\* the handler makes an Ableton call and awaits it
Await(call, position) ==
  /\ toolCalls' = Append(toolCalls, call)
  /\ toolPc' = position
  /\ toolResult' = toolResult

\* the handler returns
Return(result) ==
  /\ toolResult' = result
  /\ toolPc' = "done"
  /\ toolCalls' = toolCalls

\* a client invokes the tool; the handler runs up to its first await
Invoke ==
  /\ toolPc \in {"idle", "done"}
  /\ args' \in Args
  /\ toolCalls' = <<"song.get(tracks)">>
  /\ toolPc' = "tracks"
  /\ toolResult' = NoResult
  /\ currentNotes' = {}
  /\ UNCHANGED <<classifierVars, scriptVars, serverVars, tracks>>

\* song.get('tracks') resolves
TracksResolve ==
  /\ toolPc = "tracks"
  /\ IF OutOfRange(args.trackIndex, Len(tracks))
       THEN Return(Returned("Track index ${trackIndex} is out of range", <<args.trackIndex>>))
       ELSE IF ~Defined(args.trackIndex, Len(tracks))
         THEN Return(Caught(TypeError))
         ELSE Await("track.get(clip_slots)", "clip_slots")
  /\ UNCHANGED <<classifierVars, scriptVars, serverVars, args, tracks, currentNotes>>

\* track.get('clip_slots') resolves
ClipSlotsResolve ==
  /\ toolPc = "clip_slots"
  /\ IF Len(TheTrack.clip_slots) = 0
       THEN Return(Caught(TypeError))
       ELSE Await("clipSlot.get(has_clip)", "has_clip")
  /\ UNCHANGED <<classifierVars, scriptVars, serverVars, args, tracks, currentNotes>>

\* clipSlot.get('has_clip') resolves
HasClipResolves ==
  /\ toolPc = "has_clip"
  /\ IF ~TheClipSlot.has_clip
       THEN Return(Returned("No clip found to delete notes from", <<>>))
       ELSE Await("clipSlot.get(clip)", "clip")
  /\ UNCHANGED <<classifierVars, scriptVars, serverVars, args, tracks, currentNotes>>

\* clipSlot.get('clip') resolves
ClipResolves ==
  /\ toolPc = "clip"
  /\ IF TheClip.isNull
       THEN Return(Returned("Failed to get clip", <<>>))
       ELSE Await("clip.get(is_midi_clip)", "is_midi_clip")
  /\ UNCHANGED <<classifierVars, scriptVars, serverVars, args, tracks, currentNotes>>

\* clip.get('is_midi_clip') resolves
IsMidiClipResolves ==
  /\ toolPc = "is_midi_clip"
  /\ IF ~TheClip.is_midi_clip
       THEN Return(Returned("Clip is not a MIDI clip, cannot delete notes", <<>>))
       ELSE Await("clip.getNotes", "currentNotes")
  /\ UNCHANGED <<classifierVars, scriptVars, serverVars, args, tracks, currentNotes>>

\* the first clip.getNotes resolves; the handler enters the inner try
GetNotesResolves ==
  /\ toolPc = "currentNotes"
  /\ currentNotes' = InRange(args, TheClip.notes)
  /\ Await("clip.removeNotes", "removeNotes")
  /\ UNCHANGED <<classifierVars, scriptVars, serverVars, args, tracks>>

\* the clip after Live removed the notes in the range
removeNotes(liveTracks, a) ==
  [liveTracks EXCEPT ![a.trackIndex.floor + 1].clip_slots[1].clip.notes = @ \ InRange(a, @)]

\* clip.removeNotes resolves
RemoveNotesResolves ==
  /\ toolPc = "removeNotes"
  /\ tracks' = removeNotes(tracks, args)
  /\ Await("clip.getNotes", "notesAfterDeletion")
  /\ UNCHANGED <<classifierVars, scriptVars, serverVars, args, currentNotes>>

\* the verifying clip.getNotes resolves
NotesAfterDeletionResolve ==
  /\ toolPc = "notesAfterDeletion"
  /\ Return(Returned("Successfully removed notes from clip. Notes before: ${before}, after: ${after}",
                     <<Cardinality(currentNotes), Cardinality(InRange(args, TheClip.notes))>>))
  /\ UNCHANGED <<classifierVars, scriptVars, serverVars, args, tracks, currentNotes>>

\* an awaited call rejects and the outer catch rethrows
CallRejectsRethrown ==
  /\ toolPc \in {"tracks", "clip_slots", "has_clip", "clip", "is_midi_clip", "currentNotes"}
  /\ \E err \in Errors : Return([kind |-> "rejected", content |-> <<>>])
  /\ UNCHANGED <<classifierVars, scriptVars, serverVars, args, tracks, currentNotes>>

\* an awaited call outside the inner try rejects: the outer catch returns
CallRejects ==
  /\ toolPc \in {"tracks", "clip_slots", "has_clip", "clip", "is_midi_clip", "currentNotes"}
  /\ \E err \in Errors : Return(Caught(err))
  /\ UNCHANGED <<classifierVars, scriptVars, serverVars, args, tracks, currentNotes>>

\* clip.removeNotes or the verifying clip.getNotes rejects: the inner catch
\* returns.  A removeNotes that rejects may or may not have removed the notes.
RemoveRejects ==
  /\ toolPc \in {"removeNotes", "notesAfterDeletion"}
  /\ \E err \in Errors :
       Return(Returned("Failed to remove notes: ${message}", <<ErrorMessage(err)>>))
  /\ \/ tracks' = tracks
     \/ toolPc = "removeNotes" /\ tracks' = removeNotes(tracks, args)
  /\ UNCHANGED <<classifierVars, scriptVars, serverVars, args, currentNotes>>

InitTool ==
  /\ ServerStart
  /\ resolves = TRUE
  /\ project = <<>>
  /\ Start(NoFile)
  /\ ty = StringType
  /\ tag = NoTag
  /\ args = NoArgs
  /\ tracks \in SeqsUpTo(Tracks, 0, MaxTracks)
  /\ toolPc = "idle"
  /\ toolCalls = <<>>
  /\ currentNotes = {}
  /\ toolResult = NoResult

NextTool ==
  \/ Invoke
  \/ TracksResolve \/ ClipSlotsResolve \/ HasClipResolves \/ ClipResolves
  \/ IsMidiClipResolves \/ GetNotesResolves
  \/ RemoveNotesResolves \/ NotesAfterDeletionResolve
  \/ CallRejects \/ RemoveRejects

SpecTool == InitTool /\ [][NextTool]_vars

-----------------------------------------------------------------------------
(* Properties of parseAbletonSource and of the registry, checked under Spec *)

AfterParse == pc \in {"parsed", "generated", "done"}
AfterGenerate == pc \in {"generated", "done"}

\* the text contains 'Namespace<' at some position
ContainsNamespaceOpen(text) ==
  \E pre \in 0..Len(text) :
    /\ pre + Len(NamespaceOpen) <= Len(text)
    /\ \A j \in 1..Len(NamespaceOpen) : text[pre + j] = NamespaceOpen[j]

EligibleByText(st) ==
  st.kind = "class" /\ st.heritage # NoHeritage /\ ContainsNamespaceOpen(st.heritage)

RECURSIVE EligibleClasses(_)
\* every eligible class of the declaration set with its file, in scan order
EligibleClasses(files) ==
  IF Len(files) = 0 THEN <<>>
  ELSE LET sf == Head(files)
           here == SelectSeq(sf, EligibleByText)
       IN [i \in 1..Len(here) |-> [file |-> sf, cls |-> here[i]]]
            \o EligibleClasses(Tail(files))

RECURSIVE AllStatements(_)
AllStatements(files) ==
  IF Len(files) = 0 THEN <<>> ELSE Head(files) \o AllStatements(Tail(files))

Declares(files, st) == \E i \in 1..Len(AllStatements(files)) : AllStatements(files)[i] = st
ClassNames(records) == [i \in 1..Len(records) |-> records[i].className]
Keys(map) == {map[i].key : i \in 1..Len(map)}

\* C1: parseAbletonSource returns one record for each class whose extends
\* text contains 'Namespace<' and no other record; a class without an extends
\* clause is in neither the records nor the registry
C1_EligibleClasses ==
  LET want == EligibleClasses(project) IN
  /\ AfterParse =>
       /\ Len(parsed) = Len(want)
       /\ \A i \in 1..Len(want) : parsed[i].className = want[i].cls.name
       /\ \A i \in 1..Len(parsed) : parsed[i].className # "Plain"
  /\ AfterGenerate =>
       /\ Keys(finalMap) = {want[i].cls.name : i \in 1..Len(want)}
       /\ "Plain" \notin Keys(finalMap)

C1_Witness ==
  /\ pc = "done"
  /\ project = << <<PlainClass, TrackClass, WrapperClass>> >>
  /\ ClassNames(parsed) = <<"Track", "Wrapper">>
  /\ Keys(finalMap) = {"Track", "Wrapper"}

\* the first statement of the file that is an interface named n
HasInterface(sf, n) ==
  \E i \in 1..Len(sf) : sf[i].kind = "interface" /\ sf[i].name = n

FirstInterface(sf, n) ==
  sf[CHOOSE i \in 1..Len(sf) :
       /\ sf[i].kind = "interface" /\ sf[i].name = n
       /\ \A j \in 1..(i - 1) : ~(sf[j].kind = "interface" /\ sf[j].name = n)]

PropertySignatures(intf) ==
  SelectSeq(intf.members, LAMBDA m : m.kind = "propertySignature")

\* props lists the property signatures of the first interface of sf named n
ListsFirstInterface(props, sf, n) ==
  HasInterface(sf, n) =>
    LET sigs == PropertySignatures(FirstInterface(sf, n)) IN
    /\ Len(props) = Len(sigs)
    /\ \A k \in 1..Len(sigs) :
         props[k] = [name |-> sigs[k].name, type |-> classifyType(sigs[k].type)]

\* C8: gettableProperties lists the property signatures of the first
\* interface of the file named GettableProperties, in order and without its
\* other members; settableProperties does so for SettableProperties; the
\* eligible classes of one file get the same two lists
C8_PropertiesFromFirstInterface ==
  LET want == EligibleClasses(project) IN
  (AfterParse /\ Len(parsed) = Len(want)) =>
    /\ \A i \in 1..Len(want) :
         /\ ListsFirstInterface(parsed[i].gettableProperties, want[i].file,
                                "GettableProperties")
         /\ ListsFirstInterface(parsed[i].settableProperties, want[i].file,
                                "SettableProperties")
    /\ \A i, j \in 1..Len(want) :
         want[i].file = want[j].file =>
           /\ parsed[i].gettableProperties = parsed[j].gettableProperties
           /\ parsed[i].settableProperties = parsed[j].settableProperties

C8_Witness ==
  /\ pc = "parsed"
  /\ project = << <<GettableInterface2, GettableInterface, SongClass>> >>
  /\ Len(parsed) = 1
  /\ parsed[1].gettableProperties = << [name |-> "name", type |-> "string"] >>

\* the names of the instance methods of a class that are not denylisted
MethodNamesKept(cls) ==
  LET kept == SelectSeq(cls.members,
                        LAMBDA m : m.kind = "method" /\ m.name \notin Denylist)
  IN [k \in 1..Len(kept) |-> kept[k].name]

\* C9: a file without a GettableProperties interface gives every eligible
\* class of it gettableProperties = [], and likewise for SettableProperties;
\* the other list is not affected and the class is emitted with its methods
C9_AbsentInterfaceGivesEmptyList ==
  LET want == EligibleClasses(project) IN
  AfterParse =>
    /\ Len(parsed) = Len(want)
    /\ \A i \in 1..Len(want) :
         LET sf == want[i].file IN
         /\ ~HasInterface(sf, "GettableProperties")
              => parsed[i].gettableProperties = <<>>
         /\ ~HasInterface(sf, "SettableProperties")
              => parsed[i].settableProperties = <<>>
         /\ (HasInterface(sf, "GettableProperties")
               /\ PropertySignatures(FirstInterface(sf, "GettableProperties")) # <<>>)
              => parsed[i].gettableProperties # <<>>
         /\ (HasInterface(sf, "SettableProperties")
               /\ PropertySignatures(FirstInterface(sf, "SettableProperties")) # <<>>)
              => parsed[i].settableProperties # <<>>
         /\ parsed[i].className = want[i].cls.name
         /\ [k \in 1..Len(parsed[i].methods) |-> parsed[i].methods[k].name]
              = MethodNamesKept(want[i].cls)

C9_Witness ==
  /\ pc = "parsed"
  /\ project = << <<SettableInterface, SongClass>> >>
  /\ Len(parsed) = 1
  /\ parsed[1].gettableProperties = <<>>
  /\ Len(parsed[1].settableProperties) = 2
  /\ Len(parsed[1].methods) = 1

\* C10: no method of a record, and no method under a key of the registry,
\* has a denylisted name
C10_NoDenylistedMethod ==
  /\ AfterParse =>
       \A i \in 1..Len(parsed) : \A k \in 1..Len(parsed[i].methods) :
         parsed[i].methods[k].name \notin Denylist
  /\ AfterGenerate =>
       \A i \in 1..Len(finalMap) : \A k \in 1..Len(finalMap[i].value.methods) :
         finalMap[i].value.methods[k].name \notin Denylist

C10_Witness ==
  /\ pc = "done"
  /\ Declares(project, TrackClass)
  /\ \E i \in 1..Len(finalMap) :
       /\ finalMap[i].key = "Track"
       /\ [k \in 1..Len(finalMap[i].value.methods) |-> finalMap[i].value.methods[k].name]
            = <<"duplicateClipSlot", "setView">>

\* the instance methods of a class that are not denylisted, in declaration order
MethodsKept(cls) ==
  SelectSeq(cls.members, LAMBDA m : m.kind = "method" /\ m.name \notin Denylist)

\* the names of the static members and constructors of a class
NotInstanceNames(cls) ==
  {cls.members[k].name : k \in {x \in 1..Len(cls.members) :
                                  cls.members[x].kind \in {"staticMethod", "constructor"}}}

\* C11: methods lists the instance methods of the class that are not
\* denylisted, in declaration order, without static members and constructors;
\* each entry lists every declared parameter, classified, in declaration order
C11_MethodsAndParameters ==
  LET want == EligibleClasses(project) IN
  (AfterParse /\ Len(parsed) = Len(want)) =>
    \A i \in 1..Len(want) :
      LET kept == MethodsKept(want[i].cls)
          got == parsed[i].methods
      IN /\ Len(got) = Len(kept)
         /\ \A k \in 1..Len(got) : got[k].name \notin NotInstanceNames(want[i].cls)
         /\ \A k \in 1..Len(kept) :
              /\ got[k].name = kept[k].name
              /\ Len(got[k].parameters) = Len(kept[k].parameters)
              /\ \A j \in 1..Len(kept[k].parameters) :
                   /\ got[k].parameters[j].name = kept[k].parameters[j].name
                   /\ got[k].parameters[j].type
                        = classifyType(kept[k].parameters[j].type)

C11_Witness ==
  /\ pc = "parsed"
  /\ project = << <<SongClass>>, <<WrapperClass>> >>
  /\ Len(parsed) = 2
  /\ parsed[1].methods =
       << [name |-> "createMidiTrack",
           parameters |-> << [name |-> "index", type |-> "number"] >>] >>
  /\ parsed[2].methods =
       << [name |-> "unwrap",
           parameters |-> << [name |-> "target", type |-> "any"],
                             [name |-> "depth", type |-> "number"] >>] >>

\* the position of the last record named n
LastNamed(records, n) ==
  Max({i \in 1..Len(records) : records[i].className = n})

\* C12: the registry has one key for each class name of the records and no
\* other key, and the value under a name is built from the last record of
\* that name; it has fewer keys than there are records exactly when two
\* records share a name
C12_LastWriteWins ==
  LET names == {parsed[i].className : i \in 1..Len(parsed)} IN
  AfterGenerate =>
    /\ \A i, j \in 1..Len(finalMap) : finalMap[i].key = finalMap[j].key => i = j
    /\ Keys(finalMap) = names
    /\ Len(finalMap) = Cardinality(names)
    /\ (Len(finalMap) < Len(parsed))
         <=> (\E i, j \in 1..Len(parsed) :
                i < j /\ parsed[i].className = parsed[j].className)
    /\ \A i \in 1..Len(finalMap) :
         LET last == parsed[LastNamed(parsed, finalMap[i].key)] IN
         /\ finalMap[i].value.gettableProperties = last.gettableProperties
         /\ finalMap[i].value.settableProperties = last.settableProperties
         /\ finalMap[i].value.methods = last.methods

C12_Witness ==
  /\ pc = "generated"
  /\ project = << <<SongClass>>, <<SongClass2>> >>
  /\ Len(parsed) = 2
  /\ Len(finalMap) = 1
  /\ finalMap[1].key = "Song"
  /\ finalMap[1].value.methods = << [name |-> "getCuePoints", parameters |-> <<>>] >>

RECURSIVE FirstSeen(_)
\* the distinct elements of a sequence, each at the place of its first occurrence
FirstSeen(names) ==
  IF Len(names) = 0 THEN <<>>
  ELSE LET before == FirstSeen(SubSeq(names, 1, Len(names) - 1))
           n == names[Len(names)]
       IN IF \E i \in 1..Len(before) : before[i] = n THEN before
          ELSE Append(before, n)

\* the keys of the lines written at one indentation, in text order
KeysAt(lines, indent) ==
  LET keyed == SelectSeq(lines, LAMBDA l : l.indent = indent /\ l.key # NoKey)
  IN [i \in 1..Len(keyed) |-> keyed[i].key]

\* the values written under one key, in text order
ValuesOf(lines, key) ==
  LET sel == SelectSeq(lines, LAMBDA l : l.key = key)
  IN [i \in 1..Len(sel) |-> sel[i].val]

\* the names (types) a record lists, in record order: gettable properties,
\* settable properties, then every method followed by its parameters
PropFields(props, f) == [i \in 1..Len(props) |-> jsonString(props[i][f])]
RecordNames(rec) ==
  PropFields(rec.gettableProperties, "name")
    \o PropFields(rec.settableProperties, "name")
    \o Flatten([i \in 1..Len(rec.methods) |->
                  << jsonString(rec.methods[i].name) >>
                    \o PropFields(rec.methods[i].parameters, "name")])
RecordTypes(rec) ==
  PropFields(rec.gettableProperties, "type")
    \o PropFields(rec.settableProperties, "type")
    \o Flatten([i \in 1..Len(rec.methods) |->
                  PropFields(rec.methods[i].parameters, "type")])

\* C13: the serialized registry keeps order at its three levels: the class
\* keys of the text are the class names of the records in first-seen order (a
\* later record of the same name replaces the value, the key stays in place),
\* and the names and types written in the text are those of the properties,
\* methods and parameters of the records, in record order
C13_OrderPreserved ==
  AfterGenerate =>
    LET order == FirstSeen(ClassNames(parsed))
        last == [i \in 1..Len(order) |-> parsed[LastNamed(parsed, order[i])]]
    IN /\ [i \in 1..Len(finalMap) |-> finalMap[i].key] = order
       /\ KeysAt(output.mapJson, Indent) = order
       /\ ValuesOf(output.mapJson, "name")
            = Flatten([i \in 1..Len(last) |-> RecordNames(last[i])])
       /\ ValuesOf(output.mapJson, "type")
            = Flatten([i \in 1..Len(last) |-> RecordTypes(last[i])])

C13_Witness ==
  /\ pc = "done"
  /\ project = << <<SongClass, TrackClass>>, <<SongClass2>> >>
  /\ KeysAt(outFile.mapJson, Indent) = << "Song", "Track" >>
  /\ ValuesOf(outFile.mapJson, "name")
       = << "\"getCuePoints\"", "\"duplicateClipSlot\"", "\"index\"", "\"force\"",
            "\"setView\"", "\"view\"", "\"direction\"" >>

Called(f) == \E i \in 1..Len(calls) : calls[i] = f

\* C17: when the package cannot be resolved the run aborts with the error
\* 'Could not resolve ableton-js package' after a single call of
\* getAbletonJsPath; parseAbletonSource, generateMapFile and writeFileSync are
\* not called, the file stays as it was, and nothing follows the abort
C17_ResolutionFailureAborts ==
  ~resolves =>
    /\ pc \in {"start", "aborted"}
    /\ ~Called("parseAbletonSource") /\ ~Called("generateMapFile")
    /\ ~Called("writeFileSync")
    /\ parsed = <<>> /\ finalMap = <<>> /\ output = NoOutput
    /\ outFile = PreviousFile
    /\ pc = "start" => (error = NoError /\ calls = <<>>)
    /\ pc = "aborted" =>
         /\ error = "Could not resolve ableton-js package"
         /\ calls = << "getAbletonJsPath" >>
         /\ ~ENABLED Next

C17_Witness ==
  /\ ~resolves
  /\ pc = "aborted"
  /\ error = "Could not resolve ableton-js package"
  /\ calls = << "getAbletonJsPath" >>
  /\ outFile = PreviousFile

Opens(l) == l.val \in {"{", "["}
Closes(l) == l.val \in {"}", "]"}

Count(lines, token) == Len(SelectSeq(lines, LAMBDA l : l.val = token))

\* the lines are the text of one JSON object: it opens on the first line and
\* closes on the last, as many brackets close as open, a line after an
\* opening bracket is one step deeper, a closing bracket one step back, any
\* other line at the depth of the line before it; a comma ends a line exactly
\* when a value follows at its depth; the values of an object have keys, the
\* values of an array have none
WellFormedJson(lines) ==
  LET n == Len(lines) IN
  /\ n > 0
  /\ lines[1].indent = 0 /\ lines[1].key = NoKey
  /\ \/ n = 1 /\ lines[1].val = "{}"
     \/ n > 1 /\ lines[1].val = "{" /\ lines[n].val = "}" /\ lines[n].indent = 0
  /\ ~lines[n].comma
  /\ Count(lines, "{") = Count(lines, "}")
  /\ Count(lines, "[") = Count(lines, "]")
  /\ \A i \in 1..(n - 1) :
       LET a == lines[i]
           b == lines[i + 1]
       IN IF Opens(a)
          THEN /\ ~a.comma /\ ~Closes(b)
               /\ b.indent = a.indent + Indent
               /\ (b.key # NoKey) = (a.val = "{")
          ELSE IF Closes(b)
          THEN /\ ~a.comma
               /\ b.indent = a.indent - Indent
               /\ b.key = NoKey
          ELSE /\ a.comma
               /\ b.indent = a.indent
               /\ Closes(a) \/ (b.key # NoKey) = (a.key # NoKey)

WellFormedModule(text) ==
  /\ text.comment = "// AUTO-GENERATED FILE. DO NOT EDIT DIRECTLY."
  /\ text.declaration = "export const abletonApiMap = "
  /\ WellFormedJson(text.mapJson)
  /\ text.suffix = " as const;"

-----------------------------------------------------------------------------
(* Properties of whole runs of the script, checked under SpecRuns *)

\* the declaration set is one file that declares the class Song and the two
\* interfaces, in any order
IsSongScenario ==
  /\ Len(project) = 1
  /\ Len(project[1]) = 3
  /\ {project[1][i] : i \in 1..3} = {ScenarioSong, ScenarioGettable, ScenarioSettable}

SongEntry ==
  [gettableProperties |-> << [name |-> "tempo", type |-> "number"] >>,
   settableProperties |-> << [name |-> "name", type |-> "string"] >>,
   methods |-> << [name |-> "createMidiTrack",
                   parameters |-> << [name |-> "index", type |-> "number"] >>] >>]

\* C14: for one file declaring class Song extends Namespace<RawSong> with the
\* method createMidiTrack(index: number): Promise<Track>, GettableProperties
\* with tempo: number and SettableProperties with name: string, the registry
\* has the single key Song with the expected three lists, and the text written
\* names nothing else: the return type of the method leaves no trace
C14_SongScenario ==
  (IsSongScenario /\ AfterGenerate) =>
    /\ finalMap = << [key |-> "Song", value |-> SongEntry] >>
    /\ KeysAt(output.mapJson, Indent) = << "Song" >>
    /\ ValuesOf(output.mapJson, "name")
         = << "\"tempo\"", "\"name\"", "\"createMidiTrack\"", "\"index\"" >>
    /\ ValuesOf(output.mapJson, "type") = << "\"number\"", "\"string\"", "\"number\"" >>
    /\ pc = "done" => outFile = output

C14_Witness ==
  /\ pc = "done"
  /\ run = 1
  /\ project = << <<ScenarioSong, ScenarioGettable, ScenarioSettable>> >>
  /\ Len(finalMap) = 1
  /\ outFile.mapJson = stringify(<< [key |-> "Song", value |-> SongEntry] >>)

FieldsAre(entries, fields) ==
  \A i \in 1..Len(entries) : DOMAIN entries[i] = fields

\* C16: the value of every class key has exactly the fields
\* gettableProperties, settableProperties and methods, a property or parameter
\* entry exactly name and type, a method entry exactly name and parameters;
\* the class name is written as the key only; the text is the marker comment,
\* then one exported constant bound to the registry
C16_Shape ==
  AfterGenerate =>
    /\ \A i \in 1..Len(finalMap) :
         LET v == finalMap[i].value IN
         /\ DOMAIN v = {"gettableProperties", "settableProperties", "methods"}
         /\ FieldsAre(v.gettableProperties, {"name", "type"})
         /\ FieldsAre(v.settableProperties, {"name", "type"})
         /\ FieldsAre(v.methods, {"name", "parameters"})
         /\ \A m \in 1..Len(v.methods) :
              FieldsAre(v.methods[m].parameters, {"name", "type"})
    /\ \A k \in 1..Len(output.mapJson) :
         LET l == output.mapJson[k] IN
         /\ l.key # NoKey =>
              \/ l.indent = Indent /\ \E i \in 1..Len(finalMap) : l.key = finalMap[i].key
              \/ l.indent = 2 * Indent
                   /\ l.key \in {"gettableProperties", "settableProperties", "methods"}
              \/ l.indent = 4 * Indent /\ l.key \in {"name", "type", "parameters"}
              \/ l.indent = 6 * Indent /\ l.key \in {"name", "type"}
         /\ l.key # "className"
    /\ output.comment = "// AUTO-GENERATED FILE. DO NOT EDIT DIRECTLY."
    /\ output.declaration = "export const abletonApiMap = "
    /\ output.suffix = " as const;"
    /\ pc = "done" => outFile = output

C16_Witness ==
  /\ pc = "done"
  /\ project = << <<TrackClass, GettableInterface>> >>
  /\ Len(finalMap) = 1
  /\ Len(finalMap[1].value.gettableProperties) = 2
  /\ Len(finalMap[1].value.methods) = 2
  /\ outFile.comment = "// AUTO-GENERATED FILE. DO NOT EDIT DIRECTLY."

-----------------------------------------------------------------------------
(* Properties of the server's connection, checked under SpecServer *)

\* connection i as it was before a step that may have constructed it
Before(i) == IF i <= Len(connections) THEN connections[i] ELSE NewConnection

\* the connections a client holds or is opening
Held(client) == client.starting + (IF client.live THEN 1 ELSE 0)

OneConnection ==
  /\ Len(connections) <= 1
  /\ instance \in {NoInstance, 1}
  /\ (instance = NoInstance) = (connections = <<>>)
  /\ \A i \in 1..Len(connections) : Held(connections[i].ableton) <= 1

SameInstance ==
  /\ instance # NoInstance =>
       (instance' = instance /\ Len(connections') = Len(connections))
  /\ \A i \in 1..Len(connections') :
       connections'[i].ableton.startCalls > Before(i).ableton.startCalls =>
         /\ Before(i).ableton.starting = 0
         /\ ~Before(i).ableton.live

\* C19: whatever the order of main's connect, the handler invocations, the
\* signals and the completions of start() and close(), at most one
\* AbletonConnection and one Ableton client are constructed, getInstance goes
\* on returning the object of its first call, and start() is invoked only on
\* a client that has no start() in flight and is not live, so that no client
\* ever holds more than one connection
C19_SingleConnection == []OneConnection /\ [][SameInstance]_vars

C19_Witness ==
  /\ mainPc = "listening"
  /\ requests >= 2
  /\ handlers >= 1
  /\ signals >= 1
  /\ instance = 1
  /\ Len(connections) = 1
  /\ connections[1].ableton.startCalls = 1
  /\ connections[1].ableton.closing >= 1

FlagIsTruthful ==
  \A i \in 1..Len(connections) : connections[i].connected = connections[i].ableton.live

FlagChanges ==
  \A i \in 1..Len(connections') :
    LET old == Before(i)
        new == connections'[i]
    IN \* a new connection starts with the flag unset
       /\ i > Len(connections) => ~old.connected
       \* set only when a start() has resolved
       /\ (~old.connected /\ new.connected) =>
            /\ new.ableton.starting = old.ableton.starting - 1
            /\ new.ableton.live
       \* cleared only when a close() has resolved
       /\ (old.connected /\ ~new.connected) =>
            /\ new.ableton.closing = old.ableton.closing - 1
            /\ ~new.ableton.live
       \* a rejected start() or close() leaves the flag as it was; the error
       \* propagates and ends the process with code 1
       /\ (new.ableton.starting < old.ableton.starting /\ ~new.ableton.live) =>
            (new.connected = old.connected /\ exitCode' = <<1>>)
       /\ (new.ableton.closing < old.ableton.closing /\ new.ableton.live) =>
            (new.connected = old.connected /\ exitCode' = <<1>>)
       \* start() is called only with the flag unset, close() only with it set
       /\ new.ableton.startCalls > old.ableton.startCalls => ~old.connected
       /\ new.ableton.closeCalls > old.ableton.closeCalls => old.connected

\* C20: the connected flag of every AbletonConnection equals the state of its
\* client in every reachable state: unset at construction, set only by the
\* step in which start() resolves, cleared only by the step in which close()
\* resolves, unchanged when start() or close() rejects (the error is
\* rethrown), and start() is called only while it is unset, close() only
\* while it is set
C20_ConnectedFlag == []FlagIsTruthful /\ [][FlagChanges]_vars

C20_Witness ==
  /\ exitCode = <<1>>
  /\ mainPc = "listening"
  /\ Len(connections) = 1
  /\ connections[1].connected
  /\ connections[1].ableton.live
  /\ connections[1].ableton.closeCalls = 2
  /\ connections[1].ableton.closing = 1

\* main goes past connect() only when start() has resolved on the one client;
\* a failed connect() leaves nothing registered and ends the process with 1
StartupOrdering ==
  /\ mainPc \in {"connected", "installed", "listening"} =>
       /\ Len(connections) = 1
       /\ connections[1].ableton.startCalls = 1
       /\ connections[1].ableton.starting = 0
       /\ connections[1].connected \/ exitCode = <<0>>
  /\ (mainPc = "failed" /\ signals = 0 /\ requests = 0) => exitCode = <<1>>
  /\ (Len(connections) = 1 /\ connections[1].ableton.startCalls = 1
        /\ connections[1].ableton.starting = 0 /\ ~connections[1].ableton.live
        /\ connections[1].ableton.closeCalls = 0) =>
       (mainPc = "failed" /\ exitCode = <<1>> /\ signals = 0 /\ requests = 0)

\* the process exits only from main's failure or from cleanup, and with 0
\* only when disconnect() has completed: the flag is cleared, the client closed
ExitCodes ==
  /\ exitCode \in {<<>>, <<0>>, <<1>>}
  /\ exitCode = <<0>> =>
       /\ signals >= 1
       /\ \A i \in 1..Len(connections) :
            ~connections[i].connected /\ ~connections[i].ableton.live
  /\ (exitCode = <<1>> /\ mainPc # "failed") =>
       /\ signals >= 1
       /\ \E i \in 1..Len(connections) :
            connections[i].ableton.closeCalls > connections[i].ableton.closing

\* close() is called at most once on a client
CloseOnce ==
  \A i \in 1..Len(connections) : connections[i].ableton.closeCalls <= 1

\* C21: main registers the resources and tools, installs the signal handlers
\* and connects the transport only after connect() has succeeded, and a failed
\* connect() ends the process with code 1 with nothing registered; after a
\* signal the process exits with 0 only when disconnect() has completed
\* without error and with 1 when it has thrown; and close() is invoked at most
\* once, however many signals arrive before the first cleanup has finished
C21_StartupShutdownOrdering == StartupOrdering /\ ExitCodes /\ CloseOnce

-----------------------------------------------------------------------------
(* Properties of the delete_midi_notes handler, checked under SpecTool *)

ToolCalled(call) == \E i \in 1..Len(toolCalls) : toolCalls[i] = call

\* the calls the handler makes before it removes notes, in their order
ReadsBeforeRemoval ==
  <<"song.get(tracks)", "track.get(clip_slots)", "clipSlot.get(has_clip)",
    "clipSlot.get(clip)", "clip.get(is_midi_clip)", "clip.getNotes">>

\* the four guards of the handler
GuardsPass ==
  /\ ~OutOfRange(args.trackIndex, Len(tracks))
  /\ Defined(args.trackIndex, Len(tracks))
  /\ Len(TheTrack.clip_slots) > 0
  /\ TheClipSlot.has_clip
  /\ ~TheClip.isNull
  /\ TheClip.is_midi_clip

SingleTextItem ==
  /\ toolResult.kind = "returned"
  /\ Len(toolResult.content) = 1
  /\ toolResult.content[1].type = "text"

ToolSettles ==
  /\ toolResult.kind \in {"pending", "returned"}
  /\ toolPc = "done" <=> toolResult.kind = "returned"
  /\ toolPc = "done" => SingleTextItem

RemovalIsGuarded ==
  ToolCalled("clip.removeNotes") =>
    /\ GuardsPass
    /\ Len(toolCalls) > Len(ReadsBeforeRemoval)
    /\ SubSeq(toolCalls, 1, Len(ReadsBeforeRemoval)) = ReadsBeforeRemoval
    /\ toolCalls[Len(ReadsBeforeRemoval) + 1] = "clip.removeNotes"

\* the Live set changes only while removeNotes is in flight, and then only
\* by losing the notes of the range in the addressed clip
ClipChangesOnlyByRemoval ==
  tracks' # tracks =>
    /\ toolPc = "removeNotes"
    /\ GuardsPass
    /\ tracks' = removeNotes(tracks, args)

\* C22: delete_midi_notes never rejects and always settles with a result of
\* exactly one text content item, whatever the input and whichever Ableton call
\* fails; removeNotes is called only after the four guards passed and after the
\* reads up to getNotes were made in order; the Live set is changed by nothing
\* but that removeNotes call, so a failed guard leaves the clip as it was.
C22_DeleteNeverRejects ==
  /\ [](ToolSettles /\ RemovalIsGuarded)
  /\ [][ClipChangesOnlyByRemoval]_vars

\* notes were removed and the handler reported one note before, none after
C22_Witness ==
  /\ toolPc = "done"
  /\ SingleTextItem
  /\ ToolCalled("clip.removeNotes")
  /\ Len(toolResult.content[1].text.values) = 2
  /\ toolResult.content[1].text.values = <<1, 0>>
  /\ TheClip.notes = {}


-----------------------------------------------------------------------------
(* Properties of classifyType, checked under SpecClassify *)

Classified == tag # NoTag
IsEnumLike(t) == t.isEnum \/ t.isEnumLiteral
AllLiteral(ms) == \A i \in 1..Len(ms) : ms[i].isLiteral

\* the documented rendering of one literal type: a string literal in single
\* quotes, any other literal as its textual form
RenderedLiteral(t) == IF t.lit.t = "string" THEN "'" \o t.lit.s \o "'" ELSE t.text
RenderedUnion(ms) ==
  "(" \o Join([i \in 1..Len(ms) |-> RenderedLiteral(ms[i])], " | ") \o ")"

\* C2: the primitives string, number and boolean are classified as 'string',
\* 'number' and 'boolean'
C2_PrimitiveTag ==
  (Classified /\ ty \in {StringType, NumberType, BooleanType}) => tag = ty.text

\* C3: a union other than an enum whose members are all literal types is
\* classified as its members, rendered and joined by ' | ' inside parentheses,
\* in the order of the type model
C3_LiteralUnion ==
  (Classified /\ ~IsEnumLike(ty) /\ ty.isUnion /\ AllLiteral(ty.unionTypes))
    => tag = RenderedUnion(ty.unionTypes)

\* C4: a union other than an enum with a member that is not a literal type is
\* classified as 'any'
C4_MixedUnionIsAny ==
  (Classified /\ ~IsEnumLike(ty) /\ ty.isUnion /\ ~AllLiteral(ty.unionTypes))
    => tag = "any"

C4_Witness ==
  /\ Classified
  /\ ty = UnionType(<<StringLiteral("Session"), NumberType>>)
  /\ tag = "any"

\* C5: an enum or enum member is classified as the name of its symbol, or as
\* 'enum' when it has no symbol, whatever else the type is
C5_EnumFirst ==
  (Classified /\ IsEnumLike(ty))
    => tag = (IF ty.sym # NoSymbol THEN ty.sym ELSE "enum")

C5_Witness ==
  /\ Classified
  /\ ty = NavDirection
  /\ ty.isUnion /\ AllLiteral(ty.unionTypes)
  /\ tag = "NavDirection"

\* C6: a single literal type that is neither an enum member nor a union is
\* classified as the rendered literal: 'v' for a string, decimal text for a
\* number, true or false for a boolean
C6_SingleLiteral ==
  (Classified /\ ~IsEnumLike(ty) /\ ~ty.isUnion /\ ty.isLiteral)
    => tag = RenderedLiteral(ty)

\* the TypeTag vocabulary over the types of the model
LiteralTypes == StringLiterals \cup NumberLiterals \cup BooleanLiterals
TypeTags ==
  {"string", "number", "boolean", "any", "enum"}
    \cup {RenderedLiteral(t) : t \in LiteralTypes}
    \cup {RenderedUnion(ms) : ms \in SeqsUpTo(LiteralTypes, 2, MaxUnion)}
    \cup {"NavDirection", "Up", "Down"}

\* C7: classifyType returns one string of the TypeTag vocabulary for every
\* type, and 'any' for a type none of the first four rules matches
C7_TotalAndClosed ==
  Classified =>
    /\ tag \in TypeTags
    /\ (~IsEnumLike(ty) /\ ~ty.isUnion /\ ~ty.isLiteral
        /\ ~ty.isString /\ ~ty.isNumber /\ ~ty.isBoolean) => tag = "any"

====
